---- MODULE Spec2Model ----
(***************************************************************************)
(* RedBookImg: the relay pool client (fetchBlobWithRetry) of               *)
(* src/services/xhsService.ts and the application state machine of         *)
(* src/App.tsx (link resolution, selection, download batches, retry).      *)
(*                                                                         *)
(* The specifications share the variables:                                 *)
(*   SpecRelay   one fetchBlobWithRetry call, one step per await;          *)
(*   Spec        the App component as its user interface can drive it;     *)
(*   SpecEntry   the download and retry entry points called one after      *)
(*               another on one resolved post;                             *)
(*   SpecParse   one parseXhsLink call, one step per await;                *)
(*   SpecLink    parseXhsLink over the pasted texts;                       *)
(*   SpecNote    parseXhsLink from the parsed state object on.             *)
(***************************************************************************)
EXTENDS Integers, Sequences, FiniteSets, TLC

VARIABLES
    responses,      \* SpecRelay, SpecParse, SpecLink: the answers the call has received from its relays, in order
    fcall,          \* SpecRelay: the local state of the fetchBlobWithRetry call
    post,           \* App: useState post (NoPost when null)
    selectedIds,    \* App: useState selectedIds
    failedIds,      \* App: useState failedIds
    processing,     \* App: useState processing
    searches,       \* App: number of handleSearch calls awaiting parseXhsLink
    batches,        \* App: per slot, the local state of the handleDownload invocation last started in it
    timers,         \* App: number of pending setTimeout(() => setProcessing({ status: 'idle' }))
    rcall,          \* App: the local state of the handleSmartRename invocation
    loggedFailed,   \* console: the image ids whose last line since the last handleSearch is the failure line of App.tsx:157
    pcall,          \* SpecParse, SpecLink, SpecNote, SpecNames: the local state of the parseXhsLink call
    ncall,          \* SpecNames, SpecRename: the local state of the generateSmartNames call
    fcalls          \* SpecOverlap: per call, the local state of a fetchBlobWithRetry call and the answers it has received

vars == <<responses, fcall, post, selectedIds, failedIds, processing, searches, batches, timers, loggedFailed, rcall, pcall, ncall, fcalls>>

relayVars == <<responses, fcall, pcall, ncall, fcalls>>

appVars == <<post, selectedIds, failedIds, processing, searches, batches, timers, loggedFailed, rcall>>

(***************************************************************************)
(* fetchBlobWithRetry: src/services/xhsService.ts, lines 9-70              *)
(***************************************************************************)

\* proxies.length: the five relay URL builders of lines 13-29
NumProxies == 5

\* "Increased to 5KB (5120 bytes)", line 57
MinBlobSize == 5120

\* delay(1000 + (i * 500)), line 65
BaseDelay == 1000

DelayIncrement == 500

\* response.headers.get('content-type'): null, or a string given by the parts
\* that String.includes can find in it
NoContentType == [present |-> FALSE, parts |-> <<>>]

ContentType(parts) == [present |-> TRUE, parts |-> parts]

Includes(ct, part) == \E k \in DOMAIN ct.parts : ct.parts[k] = part

\* `contentType &&`: null and the empty string are falsy
Truthy(ct) == ct.present /\ ct.parts # <<>>

\* What a relay can answer: fetch rejects (net = FALSE), or resolves with a
\* response whose ok flag, content-type header and body size are given; body =
\* FALSE when response.blob() rejects.
Response(net, ok, ct, body, size) == [net |-> net, ok |-> ok, contentType |-> ct, body |-> body, size |-> size]

FailedToFetch == Response(FALSE, FALSE, NoContentType, FALSE, 0)

Status403 == Response(TRUE, FALSE, ContentType(<<"text/html">>), TRUE, 6000)

HtmlPage == Response(TRUE, TRUE, ContentType(<<"text/html", "; charset=utf-8">>), TRUE, 6000)

JsonError == Response(TRUE, TRUE, ContentType(<<"application/json">>), TRUE, MinBlobSize)

BodyAborted == Response(TRUE, TRUE, ContentType(<<"image/jpeg">>), FALSE, 0)

Placeholder == Response(TRUE, TRUE, ContentType(<<"image/jpeg">>), TRUE, MinBlobSize - 1)

Jpeg == Response(TRUE, TRUE, ContentType(<<"image/jpeg">>), TRUE, MinBlobSize)

Untyped == Response(TRUE, TRUE, NoContentType, TRUE, 6000)

Responses == {FailedToFetch, Status403, HtmlPage, JsonError, BodyAborted, Placeholder, Jpeg, Untyped}

\* The errors the try block of lines 35-61 throws
Err(i, reason) == [relay |-> i, reason |-> reason]

NoError == Err(-1, "undefined")

\* lines 47-51: the content-type check
BadContentType(resp) == Truthy(resp.contentType) /\ (Includes(resp.contentType, "text/html") \/ Includes(resp.contentType, "application/json"))

\* lines 55-59: the size check
TooSmallOff(blobSize) == blobSize < MinBlobSize - 1

TooSmall(blobSize) == blobSize < MinBlobSize

\* lines 35-61: the try block for relay i given the relay's answer: the blob
\* returned, or the error thrown into the catch of line 62
TryRelay(i, resp) ==
    IF ~resp.net THEN [ok |-> FALSE, err |-> Err(i, "Failed to fetch")]
    ELSE IF ~resp.ok THEN [ok |-> FALSE, err |-> Err(i, "Status")]
    ELSE IF BadContentType(resp) THEN [ok |-> FALSE, err |-> Err(i, "Invalid content-type")]
    ELSE IF ~resp.body THEN [ok |-> FALSE, err |-> Err(i, "Failed to fetch")]
    ELSE IF TooSmall(resp.size) THEN [ok |-> FALSE, err |-> Err(i, "File too small")]
    ELSE [ok |-> TRUE, blob |-> resp]

\* line 33: i++ and the loop test i < proxies.length
NextRelaySkip(i) == i + 2

NextRelay(i) == i + 1

LoopRuns(i) == i < NumProxies

\* line 63: lastError = err
KeepFirstError(lastError, err) == IF lastError = NoError THEN err ELSE lastError

CatchError(lastError, err) == err

\* line 65: the progressive delay after the failure of relay i
DelayMsFlat(i) == BaseDelay

DelayMs(i) == BaseDelay + (i * DelayIncrement)

\* line 69: throw lastError || new Error("All proxies failed to download image")
Thrown(lastError) == IF lastError = NoError THEN Err(-1, "All proxies failed to download image") ELSE lastError

\* The trace of a call: the relay requests issued (line 38) and the waits
\* begun (line 65), in order.
Request(i) == [type |-> "request", relay |-> i]

Wait(ms) == [type |-> "wait", ms |-> ms]

NotCalled == [pc |-> "idle", i |-> 0, lastError |-> NoError, trace |-> <<>>, result |-> NoError]

\* lines 31-38: the call runs to its first await, the fetch of relay 0
CallStart == [pc |-> "fetch", i |-> 0, lastError |-> NoError, trace |-> <<Request(0)>>, result |-> NoError]

\* lines 38-66: the awaited fetch of relay c.i settles with resp; the call
\* returns the blob, or catches the error and starts the delay
AfterFetch(c, resp) ==
    LET t == TryRelay(c.i, resp) IN
    IF t.ok
    THEN [c EXCEPT !.pc = "returned", !.result = t.blob]
    ELSE [c EXCEPT !.pc = "delay",
                   !.lastError = CatchError(c.lastError, t.err),
                   !.trace = Append(c.trace, Wait(DelayMs(c.i)))]

\* lines 65, 33, 38 and 69: the delay elapses; the next relay is requested, or
\* the loop ends and the last error is thrown
AfterDelay(c) ==
    IF LoopRuns(NextRelay(c.i))
    THEN [c EXCEPT !.pc = "fetch", !.i = NextRelay(c.i),
                   !.trace = Append(c.trace, Request(NextRelay(c.i)))]
    ELSE [c EXCEPT !.pc = "thrown", !.i = NextRelay(c.i), !.result = Thrown(c.lastError)]

\* The whole call, given what each relay answers: the state in which it settles
RECURSIVE RunFrom(_, _)
RunFrom(c, resps) ==
    IF c.pc = "fetch" THEN RunFrom(AfterFetch(c, resps[c.i + 1]), resps)
    ELSE IF c.pc = "delay" THEN RunFrom(AfterDelay(c), resps)
    ELSE c

fetchBlobWithRetry(resps) == RunFrom(CallStart, resps)

\* Calls that overlap, as the downloadImage tasks of a group do (App.tsx
\* lines 120-165): each has its own cacheBuster, proxies, lastError and i
\* (lines 10-33), whatever the state cs of the calls beside it
Calls == {"a", "b"}

NoCalls == [k \in Calls |-> [c |-> NotCalled, answers |-> <<>>]]

StartBesideShared(cs, k) ==
    LET i == CHOOSE i \in {cs[j].c.i : j \in Calls} : \A j \in Calls : cs[j].c.i <= i
    IN [CallStart EXCEPT !.i = i, !.trace = <<Request(i)>>]

StartBeside(cs, k) == CallStart

(***************************************************************************)
(* parseXhsLink: src/services/xhsService.ts, lines 72-214                  *)
(***************************************************************************)

\* A string is a sequence of chunks. A chunk is a run of characters that the
\* code's tests never split: a protocol prefix, a domain name, a path, a
\* query, the '!' of an image directive, a word of share copy, a blank.
Str(chunks) == chunks

EmptyStr == <<>>

\* String.includes for a needle that is one chunk
StrIncludes(str, chunk) == \E k \in DOMAIN str : str[k] = chunk

\* The protocol prefixes https?:\/\/ of the expression of line 74
Schemes == {"http://", "https://"}

\* The chunks with a character outside the class of line 74 (letters, digits,
\* the range $-_, and @ . & + ! * \ ( ) , and %hh): here the blank
Breaks == {" "}

UrlChunk(chunk) == ~(\E b \in Breaks : b = chunk)

\* line 74: where the expression matches first: the leftmost protocol prefix
\* followed by at least one character of the class (0 when there is none)
MatchStart(text) ==
    LET starts == {k \in 1..(Len(text) - 1) : text[k] \in Schemes /\ UrlChunk(text[k + 1])}
    IN IF starts = {} THEN 0 ELSE CHOOSE k \in starts : \A j \in starts : k <= j

\* line 74: where the match that starts at k ends: + is greedy and stops
\* before the first character outside the class
MatchEnd(text, k) ==
    LET stops == {m \in (k + 1)..Len(text) : ~UrlChunk(text[m])}
    IN IF stops = {} THEN Len(text) ELSE (CHOOSE m \in stops : \A j \in stops : m <= j) - 1

\* lines 74-75: urlMatch ? urlMatch[0] : text
TargetUrl(text) ==
    LET k == MatchStart(text) IN
    IF k = 0 THEN text ELSE SubSeq(text, k, MatchEnd(text, k))

\* line 77: the domain names looked for
AllowedDomains == {"xiaohongshu.com", "xhslink.com"}

\* line 77: the test that lets the call go on
PassesLinkCheck(targetUrl) == \E d \in AllowedDomains : StrIncludes(targetUrl, d)

\* The errors parseXhsLink throws: the stage that threw (link, html, locate,
\* json, note, or type for a TypeError of the runtime), the relay of an html
\* error (0 otherwise) and the message
PErr(stage, relay, message) == [stage |-> stage, relay |-> relay, message |-> message]

NoPErr == PErr("none", 0, "undefined")

\* lines 85-101: htmlProxies, by their type
HtmlProxyTypes == <<"json", "text", "text">>

NumHtmlProxies == Len(HtmlProxyTypes)

\* The forms in which a page carries its state: an assignment to
\* window.__INITIAL_STATE__ (line 140) or to window.__INITIAL_SSR_STATE__, or
\* the script element of id "initial-state" (geminiService.ts lines 219-227)
StateForms == {"__INITIAL_STATE__", "__INITIAL_SSR_STATE__", "initial-state"}

\* What a page carries: nothing, or in the given form a text which, after
\* line 146, JSON.parse accepts (valid) as the object state, or rejects;
\* found: the expression of line 140 matches
Embedded(form, valid, state) == [found |-> form = "__INITIAL_STATE__", valid |-> valid, state |-> state, form |-> form]

NoScript == [found |-> FALSE, valid |-> FALSE, state |-> <<>>, form |-> "none"]

BrokenScript == Embedded("__INITIAL_STATE__", FALSE, <<>>)

Script(state) == Embedded("__INITIAL_STATE__", TRUE, state)

\* The values line 117 or 119 assigns to html: undefined (the relay's JSON
\* has no contents field), the empty string, or a text with or without an
\* '<html' or '<!DOCTYPE' marker that holds the script
UndefinedPage == [kind |-> "undefined", marker |-> FALSE, script |-> NoScript]

EmptyPage == [kind |-> "empty", marker |-> FALSE, script |-> NoScript]

TextPage(marker, script) == [kind |-> "text", marker |-> marker, script |-> script]

\* `html &&` and `!html`: undefined and the empty string are falsy
PageTruthy(page) == page.kind = "text"

\* line 123: the check that the text resembles HTML
LooksLikeHtml(page) == PageTruthy(page) /\ page.marker

\* What an HTML relay can answer: fetch rejects (net = FALSE), or resolves
\* with a response whose ok flag is given and whose body response.json() or
\* response.text() rejects (readable = FALSE) or turns into the page
HtmlAnswer(net, ok, readable, page) == [net |-> net, ok |-> ok, readable |-> readable, page |-> page]

\* lines 107-127: the try block for relay i given its answer: the value html
\* has afterwards, and whether the loop breaks or an error is thrown into the
\* catch of line 128
TryHtml(i, answer, html) ==
    IF ~answer.net THEN [ok |-> FALSE, html |-> html, err |-> PErr("html", i, "Failed to fetch")]
    ELSE IF ~answer.ok THEN [ok |-> FALSE, html |-> html, err |-> PErr("html", i, "returned status")]
    ELSE IF ~answer.readable THEN [ok |-> FALSE, html |-> html, err |-> PErr("html", i, "body unreadable")]
    ELSE IF LooksLikeHtml(answer.page) THEN [ok |-> TRUE, html |-> answer.page, err |-> NoPErr]
    ELSE [ok |-> FALSE, html |-> answer.page, err |-> PErr("html", i, "returned invalid content")]

\* lines 108-109: the request of relay i for the target
HtmlRequest(i, targetUrl) == [relay |-> i, url |-> targetUrl]

\* The values of the parsed state: undefined (an absent field), null, a
\* string (its chunks), a number, an array (its items), and objects, each a
\* record with the fields the code reads
Absent == [type |-> "undefined"]

Null == [type |-> "null"]

JStr(chunks) == [type |-> "string", chunks |-> chunks]

JNum == [type |-> "number"]

JArray(items) == [type |-> "array", items |-> items]

\* An entry of imageList
ImgRecord(urlDefault, url, fileId) == [type |-> "object", urlDefault |-> urlDefault, url |-> url, fileId |-> fileId]

\* A note record
NoteRecord(noteId, imageList) == [type |-> "object", noteId |-> noteId, imageList |-> imageList]

\* An entry of noteDetailMap
MapEntry(note) == [type |-> "object", note |-> note]

\* noteDetailMap: its entries in the order of Object.keys
DetailMap(entries) == [type |-> "object", entries |-> entries]

\* state.note
NoteSlice(note, noteDetailMap) == [type |-> "object", note |-> note, noteDetailMap |-> noteDetailMap]

\* The state object
State(note) == [type |-> "object", note |-> note]

\* !v: undefined, null and the empty string are falsy
Falsy(v) == v.type \in {"undefined", "null"} \/ (v.type = "string" /\ v.chunks = <<>>)

\* v is null or undefined: reading a property of v throws a TypeError
Nullish(v) == v.type \in {"undefined", "null"}

\* a || b
Or(a, b) == IF Falsy(a) THEN b ELSE a

\* TypeError of the runtime
TypeError(message) == PErr("type", 0, message)

\* v?.name, and v.name for an object v: undefined where the field is missing
Field(v, name) == IF v.type = "object" /\ name \in DOMAIN v THEN v[name] ELSE Absent

\* map[Object.keys(map)[0]], where the map has a key
FirstEntry(map) == IF map.type = "object" /\ "entries" \in DOMAIN map /\ Len(map.entries) > 0 THEN map.entries[1] ELSE Absent

HasEntries(map) == map.type = "object" /\ "entries" \in DOMAIN map /\ Len(map.entries) > 0

\* lines 158-163: the note of the first entry of state.note.noteDetailMap
\* replaces a falsy note; reading it from a null entry throws
FromDetailMap(state, note) ==
    LET map == Field(Field(state, "note"), "noteDetailMap") IN
    IF ~Falsy(note) \/ Falsy(map) \/ ~HasEntries(map) THEN [threw |-> FALSE, note |-> note]
    ELSE IF Nullish(FirstEntry(map)) THEN [threw |-> TRUE, error |-> TypeError("Cannot read properties of null")]
    ELSE [threw |-> FALSE, note |-> Field(FirstEntry(map), "note")]

\* lines 157-163: the note record: state.note?.note, else the note of the
\* first entry of state.note?.noteDetailMap
LocateNote(state) == FromDetailMap(state, Field(Field(state, "note"), "note"))

\* geminiService.ts lines 244-263, the copy of parseXhsLink kept there: the
\* note is state.note?.note || state.note, then the first map entry's note,
\* then state.data?.note, then state.feed?.items?.[0]?.note
LocateNoteRobust(state) ==
    LET first == FromDetailMap(state, Or(Field(Field(state, "note"), "note"), Field(state, "note")))
        items == Field(Field(state, "feed"), "items")
        feedNote == IF items.type = "array" /\ Len(items.items) > 0 THEN Field(items.items[1], "note") ELSE Absent
    IN
    IF first.threw THEN first
    ELSE [threw |-> FALSE, note |-> Or(Or(first.note, Field(Field(state, "data"), "note")), feedNote)]

\* lines 175-177: the protocol upgrade of a string
UpgradeHttps(str) == IF Len(str) > 0 /\ str[1] = "http://" THEN <<"https://">> \o Tail(str) ELSE str

\* lines 183-185 and 216-219: the string up to the first '!'
cleanXhsUrl(url) ==
    LET bangs == {k \in DOMAIN url : url[k] = "!"} IN
    IF bangs = {} THEN url
    ELSE SubSeq(url, 1, (CHOOSE k \in bangs : \A j \in bangs : k <= j) - 1)

\* line 188: img_<index>_<Date.now()>
SynthId(index) == JStr(<<"img_", ToString(index)>>)

\* lines 187-194: an XhsImage
XhsImage(id, url, previewUrl) == [id |-> id, url |-> url, previewUrl |-> previewUrl]

\* lines 171-195: the callback of imageList.map for the entry img at index
\* (from 0): the image, or the TypeError it throws
ProjectImage(img, index) ==
    IF Nullish(img) THEN [threw |-> TRUE, error |-> TypeError("Cannot read properties of null")]
    ELSE
        LET original == Or(Or(img.urlDefault, img.url), JStr(EmptyStr)) IN
        IF original.type # "string" THEN [threw |-> TRUE, error |-> TypeError("originalUrl.startsWith is not a function")]
        ELSE
            LET originalUrl == UpgradeHttps(original.chunks) IN
            [threw |-> FALSE, image |-> XhsImage(Or(img.fileId, SynthId(index)), cleanXhsUrl(originalUrl), originalUrl)]

\* lines 170-204: the post built from the note record, or the TypeError thrown
\* by the first entry of imageList that throws one
XhsPost(id, images) == [id |-> id, images |-> images]

BuildPostReversed(note) ==
    LET imageList == IF Falsy(note.imageList) THEN <<>> ELSE note.imageList.items
        projected == [k \in DOMAIN imageList |-> ProjectImage(imageList[k], k - 1)]
        throwing == {k \in DOMAIN imageList : projected[k].threw}
    IN
    IF throwing # {}
    THEN [threw |-> TRUE, error |-> projected[CHOOSE k \in throwing : \A j \in throwing : k <= j].error]
    ELSE [threw |-> FALSE, post |-> XhsPost(note.noteId, [k \in DOMAIN imageList |-> projected[Len(imageList) + 1 - k].image])]

BuildPost(note) ==
    LET imageList == IF Falsy(note.imageList) THEN <<>> ELSE note.imageList.items
        projected == [k \in DOMAIN imageList |-> ProjectImage(imageList[k], k - 1)]
        throwing == {k \in DOMAIN imageList : projected[k].threw}
    IN
    IF throwing # {}
    THEN [threw |-> TRUE, error |-> projected[CHOOSE k \in throwing : \A j \in throwing : k <= j].error]
    ELSE [threw |-> FALSE, post |-> XhsPost(note.noteId, [k \in DOMAIN imageList |-> projected[k].image])]

\* lines 156-204: from the parsed state to the post, or the error thrown
NoteStage(state) ==
    LET located == LocateNote(state) IN
    IF located.threw THEN [threw |-> TRUE, error |-> located.error]
    ELSE IF Falsy(located.note) THEN [threw |-> TRUE, error |-> PErr("note", 0, "note not found")]
    ELSE BuildPost(located.note)

\* How the call has settled: not yet, with a post, or with an error
NoResult == [kind |-> "none"]

Returned(xhsPost) == [kind |-> "post", post |-> xhsPost]

Threw(error) == [kind |-> "error", error |-> error]

\* lines 206-213: the outer catch replaces an error whose message includes
\* "Failed to fetch" by a new error and rethrows any other
OuterCatch(error) == IF error.message = "Failed to fetch" THEN PErr("remapped", 0, "network blocked") ELSE error

\* The local state of the call: where it is (idle: not made; fetch: awaiting
\* the fetch of relay i; parsed: past line 154, used by SpecNote; settled),
\* its argument, its variables, the relay requests it has issued and the way
\* it settled
NotParsing == [pc |-> "idle", text |-> EmptyStr, targetUrl |-> EmptyStr, i |-> 0, html |-> EmptyPage, fetchError |-> NoPErr, state |-> Absent, requests |-> <<>>, result |-> NoResult]

Settle(c, result) == [c EXCEPT !.pc = "settled", !.result = result]

\* lines 72-109: the call runs to its first await, the fetch of the first
\* relay, or throws at line 78
ParseStart(text) ==
    LET c == [NotParsing EXCEPT !.text = text, !.targetUrl = TargetUrl(text)] IN
    IF ~PassesLinkCheck(c.targetUrl)
    THEN Settle(c, Threw(PErr("link", 0, "invalid link")))
    ELSE [c EXCEPT !.pc = "fetch", !.i = 1, !.requests = <<HtmlRequest(1, c.targetUrl)>>]

\* lines 156-213: from the parsed state on
AfterParse(c, state) ==
    LET r == NoteStage(state)
        c1 == [c EXCEPT !.state = state]
    IN IF r.threw THEN Settle(c1, Threw(OuterCatch(r.error))) ELSE Settle(c1, Returned(r.post))

\* lines 135-213: after the loop
AfterLoop(c) ==
    IF ~PageTruthy(c.html)
    THEN Settle(c, Threw(OuterCatch(IF c.fetchError = NoPErr THEN PErr("html", 0, "all proxies failed") ELSE c.fetchError)))
    ELSE IF ~c.html.script.found THEN Settle(c, Threw(PErr("locate", 0, "state not found")))
    ELSE IF ~c.html.script.valid THEN Settle(c, Threw(PErr("json", 0, "state parse error")))
    ELSE AfterParse(c, c.html.script.state)

\* lines 106-133: the awaited fetch of relay c.i settles with the answer
AfterHtmlFetch(c, answer) ==
    LET t == TryHtml(c.i, answer, c.html) IN
    IF t.ok THEN AfterLoop([c EXCEPT !.html = t.html])
    ELSE
        LET c1 == [c EXCEPT !.html = t.html, !.fetchError = t.err] IN
        IF c.i < NumHtmlProxies
        THEN [c1 EXCEPT !.i = c.i + 1, !.requests = Append(c.requests, HtmlRequest(c.i + 1, c.targetUrl))]
        ELSE AfterLoop(c1)

(***************************************************************************)
(* generateSmartNames: src/services/geminiService.ts lines 20-95           *)
(***************************************************************************)

\* line 86: await delay(1000)
NameDelay == 1000

\* What the call has asked of its environment, in order: a byte retrieval
\* (fetchBlobWithRetry) for the image at index k, a wait
NameFetch(k, url) == [op |-> "fetch", image |-> k, url |-> url]

NameWait(ms) == [op |-> "wait", ms |-> ms]

NamesReturned(images) == [kind |-> "images", images |-> images]

\* The local state of the call: where it is (idle: not made; preview, hq:
\* awaiting fetchBlobWithRetry of that URL for the image at index i, 0-based;
\* base64: awaiting getBase64FromBlob; delay: awaiting delay(1000); settled),
\* its arguments, updatedImages, what it has asked for and the way it settled
NotNaming == [pc |-> "idle", images |-> <<>>, apiKey |-> "", updatedImages |-> <<>>, i |-> 0, log |-> <<>>, result |-> NoResult]

\* lines 35-43: the head of the loop: the call returns at line 90, or the
\* image at index i is mapped and its preview retrieval awaited
NameItemHqFirst(c) ==
    IF c.i >= Len(c.updatedImages) THEN [c EXCEPT !.pc = "settled", !.result = NamesReturned(c.updatedImages)]
    ELSE [c EXCEPT !.pc = "preview", !.log = Append(c.log, NameFetch(c.i, c.updatedImages[c.i + 1].url))]

NameItem(c) ==
    IF c.i >= Len(c.updatedImages) THEN [c EXCEPT !.pc = "settled", !.result = NamesReturned(c.updatedImages)]
    ELSE [c EXCEPT !.pc = "preview", !.log = Append(c.log, NameFetch(c.i, c.updatedImages[c.i + 1].previewUrl))]

\* lines 20-35: the call up to its first await
NameStartAnyKey(images, apiKey) == NameItem([NotNaming EXCEPT !.images = images, !.apiKey = apiKey, !.updatedImages = images])

NameStart(images, apiKey) ==
    LET c == [NotNaming EXCEPT !.images = images, !.apiKey = apiKey] IN
    IF apiKey = "" THEN [c EXCEPT !.pc = "settled", !.result = NamesReturned(images)]
    ELSE NameItem([c EXCEPT !.updatedImages = images])

\* lines 79-87: Promise.all has resolved with the processed image: it
\* replaces the image at index i, and the call waits when an image remains
ItemDoneNoPause(c, processedImg) ==
    NameItem([c EXCEPT !.updatedImages[c.i + 1] = processedImg, !.i = c.i + 1])

ItemDone(c, processedImg) ==
    LET c1 == [c EXCEPT !.updatedImages[c.i + 1] = processedImg] IN
    IF c.i + 1 < Len(c.updatedImages)
    THEN [c1 EXCEPT !.pc = "delay", !.log = Append(c.log, NameWait(NameDelay))]
    ELSE NameItem([c1 EXCEPT !.i = c.i + 1])

\* lines 43-52: the preview retrieval has settled: getBase64FromBlob is
\* awaited, or the high-quality URL is retrieved
AfterPreview(c, ok) ==
    IF ok THEN [c EXCEPT !.pc = "base64"]
    ELSE [c EXCEPT !.pc = "hq", !.log = Append(c.log, NameFetch(c.i, c.updatedImages[c.i + 1].url))]

\* lines 47-52 and 74-77: the high-quality retrieval has settled: its
\* failure is caught at line 74 and the image returned as it is
AfterHqRethrow(c, ok) ==
    IF ok THEN [c EXCEPT !.pc = "base64"]
    ELSE [c EXCEPT !.pc = "settled", !.result = Threw(PErr("names", 0, "retrieval failed"))]

AfterHq(c, ok) ==
    IF ok THEN [c EXCEPT !.pc = "base64"]
    ELSE ItemDone(c, c.updatedImages[c.i + 1])

\* lines 36 and 85-87: the wait is over, the loop goes on with i + batchSize
AfterNameDelay(c) == NameItem([c EXCEPT !.i = c.i + 1])

(***************************************************************************)
(* The App component: src/App.tsx                                          *)
(***************************************************************************)

\* Bounds of the model
MaxImages == 4

MaxNotes == 1

MaxSearches == 1

MaxBatches == 1

MaxTimers == 1

\* const MAX_CONCURRENT = 3, line 116
MAX_CONCURRENT == 3

\* An image of a post: its id is the origin's fileId, here the note and the
\* position in the note's image list
Image(note, k) == [id |-> <<note, k>>]

\* useState<XhsPost | null>(null), line 25
NoPost == [id |-> 0, images |-> <<>>]

\* A post parseXhsLink returns: note `note` with n images
Post(note, n) == [id |-> note, images |-> [k \in 1..n |-> Image(note, k)]]

ImageIds(p) == {p.images[k].id : k \in DOMAIN p.images}

\* ProcessingState: status, and progress and total (None when absent)
None == 0 - 1

Processing(status) == [status |-> status, progress |-> None, total |-> None]

\* The local state of a handleSmartRename invocation: where it is (idle: never
\* made; naming: awaiting generateSmartNames at line 82; returned) and the
\* post of the render whose handler was called
NotRenaming == [pc |-> "idle", post |-> NoPost]

\* The local state of a handleDownload invocation: where it is (free: never
\* made; early: returned at line 92 or 95; group: awaiting the Promise.all of
\* line 169; pause: awaiting the timeout of line 175; done: returned at line
\* 191), its arguments and variables, and its downloadImage calls
NoBatch == [pc |-> "free", retry |-> FALSE, targetIds |-> {}, images |-> <<>>, i |-> 0, tasks |-> <<>>, successCount |-> 0, failCount |-> 0]

InitApp ==
    /\ post = NoPost
    /\ selectedIds = {}
    /\ failedIds = {}
    /\ processing = Processing("idle")
    /\ searches = 0
    /\ batches = [s \in 1..MaxBatches |-> NoBatch]
    /\ timers = 0
    /\ loggedFailed = {}
    /\ rcall = NotRenaming

(***************************************************************************)
(* handleDownload and downloadImage: src/App.tsx, lines 91-191             *)
(***************************************************************************)

\* What the relays answer to the requests of one fetchBlobWithRetry call made
\* by downloadImage: per relay, an image or an error status
AppResponses == {Jpeg, Status403}

\* How an awaited fetchBlobWithRetry call settles for its caller: resolved
\* with a blob, or rejected with the error thrown at line 69
Settlement(c) == [ok |-> c.pc = "returned", error |-> IF c.pc = "returned" THEN NoError ELSE c.result]

Settlements == {Settlement(fetchBlobWithRetry(resps)) : resps \in [1..NumProxies -> AppResponses]}

\* line 94: const targetIds = retryFailedOnly ? failedIds : selectedIds
TargetIds(retryFailedOnly) == IF retryFailedOnly THEN failedIds ELSE selectedIds

\* lines 92 and 95: if (!post) return; if (targetIds.size === 0) return
ReturnsEarlyOnlyWithoutPost(targetIds) == post = NoPost

ReturnsEarly(targetIds) == post = NoPost \/ targetIds = {}

\* lines 99-109: the failure set after the optimistic clearing
ClearedFailedIdsKeepAll(retryFailedOnly, targetIds) == failedIds

ClearedFailedIdsDropAll(retryFailedOnly, targetIds) == {}

ClearedFailedIds(retryFailedOnly, targetIds) == IF retryFailedOnly THEN {} ELSE failedIds \ targetIds

\* line 113: post.images.filter(img => targetIds.has(img.id))
ImagesToDownload(targetIds) == SelectSeq(post.images, LAMBDA img : targetIds \intersect {img.id} # {})

\* A downloadImage call: the state of its two retrievals (none, pending, ok,
\* failed), how it settled (no, ok, failed), and the errors caught at lines
\* 127 and 156
NotStarted == [hq |-> "none", pv |-> "none", settled |-> "no", hqError |-> NoError, error |-> NoError]

\* lines 120-126: downloadImage runs to its first await, the high-quality retrieval
TaskStartPreviewFirst == [NotStarted EXCEPT !.pv = "pending"]

TaskStart == [NotStarted EXCEPT !.hq = "pending"]

\* line 166: imagesToDownload.slice(i, i + MAX_CONCURRENT), as indices from 1
GroupUnbounded(b) == {k \in 1..Len(b.images) : b.i < k}

Group(b) == {k \in 1..Len(b.images) : b.i < k /\ k <= b.i + MAX_CONCURRENT}

\* lines 169-171: batch.map(downloadImage) starts every task of the group
StartGroup(b) == [b EXCEPT !.pc = "group", !.tasks = [k \in DOMAIN b.tasks |-> IF k \in Group(b) THEN TaskStart ELSE b.tasks[k]]]

\* lines 51, 87 and 186: setTimeout of a reset to idle (the count saturates at MaxTimers)
AddTimer(tm) == IF tm < MaxTimers THEN tm + 1 ELSE tm

FinishNoReset(b, tm) == [batch |-> [b EXCEPT !.pc = "done"], processing |-> Processing(IF b.failCount > 0 THEN "error" ELSE "success"), timers |-> tm]

\* lines 179-190: the loop has ended; the outcome is shown and the reset scheduled
Finish(b, tm) == [batch |-> [b EXCEPT !.pc = "done"], processing |-> Processing(IF b.failCount > 0 THEN "error" ELSE "success"), timers |-> AddTimer(tm)]

\* lines 169-177: Promise.all resolves once every task of the group has
\* settled; the loop then pauses before the next group, or ends
GroupSettledAny(b) == \E k \in Group(b) : b.tasks[k].settled # "no"

GroupSettled(b) == \A k \in Group(b) : b.tasks[k].settled # "no"

ContinuePauseAfterLast(b, proc, tm) ==
    IF ~GroupSettled(b) THEN [batch |-> b, processing |-> proc, timers |-> tm]
    ELSE IF b.i + MAX_CONCURRENT <= Len(b.images) THEN [batch |-> [b EXCEPT !.pc = "pause"], processing |-> proc, timers |-> tm]
    ELSE Finish(b, tm)

Continue(b, proc, tm) ==
    IF ~GroupSettled(b) THEN [batch |-> b, processing |-> proc, timers |-> tm]
    ELSE IF b.i + MAX_CONCURRENT < Len(b.images) THEN [batch |-> [b EXCEPT !.pc = "pause"], processing |-> proc, timers |-> tm]
    ELSE Finish(b, tm)

InFlight(b) == b.pc \in {"group", "pause"}

\* lines 153 and 160: progress: successCount + failCount
ProgressSucceededOnly(b) == b.successCount

Progress(b) == b.successCount + b.failCount

\* The slot a new invocation takes: the first one whose invocation has returned
FreeSlot(s) == ~InFlight(batches[s]) /\ \A r \in 1..(s - 1) : InFlight(batches[r])

\* lines 91-171: handleDownload runs to its first await
handleDownload(retryFailedOnly) ==
    LET targetIds == TargetIds(retryFailedOnly) IN
    \E s \in 1..MaxBatches :
    /\ FreeSlot(s)
    /\ IF ReturnsEarly(targetIds)
       THEN
         /\ batches' = [batches EXCEPT ![s] = [NoBatch EXCEPT !.pc = "early", !.retry = retryFailedOnly, !.targetIds = targetIds]]
         /\ UNCHANGED <<post, selectedIds, failedIds, processing, searches, timers, loggedFailed, rcall>>
       ELSE
         /\ LET imgs == ImagesToDownload(targetIds)
                b0 == [pc |-> "group", retry |-> retryFailedOnly, targetIds |-> targetIds, images |-> imgs, i |-> 0,
                       tasks |-> [k \in 1..Len(imgs) |-> NotStarted], successCount |-> 0, failCount |-> 0]
                proc0 == [status |-> "downloading", progress |-> 0, total |-> Cardinality(targetIds)]
                r == IF Len(imgs) = 0 THEN Finish(b0, timers)
                     ELSE [batch |-> StartGroup(b0), processing |-> proc0, timers |-> timers]
            IN
            /\ batches' = [batches EXCEPT ![s] = r.batch]
            /\ processing' = r.processing
            /\ timers' = r.timers
         /\ failedIds' = ClearedFailedIds(retryFailedOnly, targetIds)
         /\ UNCHANGED <<post, selectedIds, searches, loggedFailed, rcall>>

\* lines 136-154: the blob was retrieved; the file is saved, successCount++
\* and the progress is set
Succeed(s, k, task) ==
    LET b == batches[s]
        b1 == [b EXCEPT !.tasks[k] = [task EXCEPT !.settled = "ok"], !.successCount = @ + 1]
        r == Continue(b1, [processing EXCEPT !.progress = Progress(b1)], timers)
    IN
    /\ batches' = [batches EXCEPT ![s] = r.batch]
    /\ processing' = r.processing
    /\ timers' = r.timers
    /\ loggedFailed' = loggedFailed \ {b.images[k].id}
    /\ UNCHANGED <<post, selectedIds, failedIds, searches, rcall>>

\* lines 156-161: the catch of downloadImage: failCount++, the id is added to
\* the failure set and the progress is set
Fail(s, k, task) ==
    LET b == batches[s]
        b1 == [b EXCEPT !.tasks[k] = [task EXCEPT !.settled = "failed"], !.failCount = @ + 1]
        r == Continue(b1, [processing EXCEPT !.progress = Progress(b1)], timers)
    IN
    /\ batches' = [batches EXCEPT ![s] = r.batch]
    /\ processing' = r.processing
    /\ timers' = r.timers
    /\ failedIds' = failedIds \union {b.images[k].id}
    /\ loggedFailed' = loggedFailed \union {b.images[k].id}
    /\ UNCHANGED <<post, selectedIds, searches, rcall>>

\* lines 126-130: the high-quality retrieval settles; on failure the preview
\* retrieval is started
HqSettles(s, k) ==
    /\ batches[s].pc = "group"
    /\ k \in Group(batches[s])
    /\ batches[s].tasks[k].hq = "pending"
    /\ \E r \in Settlements :
        LET task == batches[s].tasks[k] IN
        IF r.ok
        THEN Succeed(s, k, [task EXCEPT !.hq = "ok"])
        ELSE /\ batches' = [batches EXCEPT ![s].tasks[k] = [task EXCEPT !.hq = "failed", !.hqError = r.error, !.pv = "pending"]]
             /\ UNCHANGED <<post, selectedIds, failedIds, processing, searches, timers, loggedFailed, rcall>>

\* lines 130-133: the preview retrieval settles; on failure its error is
\* thrown into the catch of line 156
PvSettles(s, k) ==
    /\ batches[s].pc = "group"
    /\ k \in Group(batches[s])
    /\ batches[s].tasks[k].pv = "pending"
    /\ \E r \in Settlements :
        LET task == batches[s].tasks[k] IN
        IF r.ok
        THEN Succeed(s, k, [task EXCEPT !.pv = "ok"])
        ELSE Fail(s, k, [task EXCEPT !.pv = "failed", !.error = r.error])

\* lines 174-176 and 165-171: the pause between two groups elapses and the
\* next group is started
PauseElapses(s) ==
    /\ batches[s].pc = "pause"
    /\ batches' = [batches EXCEPT ![s] = StartGroup([batches[s] EXCEPT !.i = @ + MAX_CONCURRENT])]
    /\ UNCHANGED <<post, selectedIds, failedIds, processing, searches, timers, loggedFailed, rcall>>

\* lines 51, 87 and 186-190: a scheduled reset runs
TimerFires ==
    /\ timers > 0
    /\ timers' = timers - 1
    /\ processing' = Processing("idle")
    /\ UNCHANGED <<post, selectedIds, failedIds, searches, batches, loggedFailed, rcall>>

(***************************************************************************)
(* handleSearch, toggleSelection, toggleSelectAll: src/App.tsx, lines 37-72 *)
(***************************************************************************)

\* The posts parseXhsLink can resolve with
ParsedPosts == {Post(note, n) : note \in 1..MaxNotes, n \in 0..MaxImages}

\* lines 37-44: handleSearch runs to its await of parseXhsLink
handleSearch ==
    /\ searches < MaxSearches
    /\ searches' = searches + 1
    /\ processing' = Processing("analyzing")
    /\ post' = NoPost
    /\ selectedIds' = {}
    /\ failedIds' = {}
    /\ loggedFailed' = {}
    /\ UNCHANGED <<batches, timers, rcall>>

\* lines 44-48: parseXhsLink resolves
SearchResolvesWith(posts) ==
    /\ searches > 0
    /\ \E data \in posts :
        /\ post' = data
        /\ selectedIds' = ImageIds(data)
    /\ processing' = Processing("idle")
    /\ searches' = searches - 1
    /\ UNCHANGED <<failedIds, batches, timers, loggedFailed, rcall>>

SearchResolves == SearchResolvesWith(ParsedPosts)

\* lines 49-52: parseXhsLink rejects
SearchRejects ==
    /\ searches > 0
    /\ processing' = Processing("error")
    /\ timers' = AddTimer(timers)
    /\ searches' = searches - 1
    /\ UNCHANGED <<post, selectedIds, failedIds, batches, loggedFailed, rcall>>

\* lines 55-63
toggleSelection(id) ==
    /\ selectedIds' = IF id \in selectedIds THEN selectedIds \ {id} ELSE selectedIds \union {id}
    /\ UNCHANGED <<post, failedIds, processing, searches, batches, timers, loggedFailed, rcall>>

\* lines 65-72
toggleSelectAll ==
    /\ post # NoPost
    /\ selectedIds' = IF Cardinality(selectedIds) = Len(post.images) THEN {} ELSE ImageIds(post)
    /\ UNCHANGED <<post, failedIds, processing, searches, batches, timers, loggedFailed, rcall>>

(***************************************************************************)
(* Spec: the App component driven through its rendered controls            *)
(***************************************************************************)

Init ==
    /\ responses = <<>>
    /\ fcall = NotCalled
    /\ pcall = NotParsing
    /\ ncall = NotNaming
    /\ fcalls = NoCalls
    /\ InitApp

\* SearchBar.tsx lines 12-17, 50 and 65, App.tsx line 224: the form submits
\* unless the status is analyzing
Submit ==
    /\ processing.status # "analyzing"
    /\ handleSearch
    /\ UNCHANGED relayVars

\* App.tsx lines 269-282 and ImageCard.tsx line 22: a card of the post is clicked
ClickCard ==
    /\ \E id \in ImageIds(post) : toggleSelection(id)
    /\ UNCHANGED relayVars

\* App.tsx lines 296-303: the select-all button of the action bar
ClickSelectAll ==
    /\ toggleSelectAll
    /\ UNCHANGED relayVars

\* App.tsx lines 326-334: the retry button is rendered
ClickRetry ==
    /\ post # NoPost
    /\ failedIds # {} /\ processing.status = "idle"
    /\ handleDownload(TRUE)
    /\ UNCHANGED relayVars

\* App.tsx lines 337-342: the download button is rendered and not disabled
ClickDownload ==
    /\ post # NoPost
    /\ ~(failedIds # {} /\ processing.status = "idle")
    /\ ~(selectedIds = {} \/ processing.status # "idle")
    /\ handleDownload(FALSE)
    /\ UNCHANGED relayVars

Resolve == SearchResolves /\ UNCHANGED relayVars

Reject == SearchRejects /\ UNCHANGED relayVars

Timeout == TimerFires /\ UNCHANGED relayVars

HqSettle == \E s \in 1..MaxBatches : \E k \in 1..MaxImages : HqSettles(s, k) /\ UNCHANGED relayVars

PvSettle == \E s \in 1..MaxBatches : \E k \in 1..MaxImages : PvSettles(s, k) /\ UNCHANGED relayVars

Pause == \E s \in 1..MaxBatches : PauseElapses(s) /\ UNCHANGED relayVars

Next ==
    \/ Submit
    \/ Resolve
    \/ Reject
    \/ ClickCard
    \/ ClickSelectAll
    \/ ClickRetry
    \/ ClickDownload
    \/ HqSettle
    \/ PvSettle
    \/ Pause
    \/ Timeout

Spec == Init /\ [][Next]_vars

(***************************************************************************)
(* SpecEntry: one resolved post; handleDownload is called again only       *)
(* after the previous invocation has returned                              *)
(***************************************************************************)

\* The state handleSearch leaves when parseXhsLink resolved (lines 45-48)
InitEntry ==
    /\ responses = <<>>
    /\ fcall = NotCalled
    /\ pcall = NotParsing
    /\ ncall = NotNaming
    /\ fcalls = NoCalls
    /\ \E n \in 1..MaxImages : post = Post(1, n)
    /\ selectedIds = ImageIds(post)
    /\ failedIds = {}
    /\ processing = Processing("idle")
    /\ searches = 0
    /\ batches = [s \in 1..MaxBatches |-> NoBatch]
    /\ timers = 0
    /\ loggedFailed = {}
    /\ rcall = NotRenaming

NoBatchInFlight == \A s \in 1..MaxBatches : ~InFlight(batches[s])

CallDownload ==
    /\ NoBatchInFlight
    /\ handleDownload(FALSE)
    /\ UNCHANGED relayVars

CallRetry ==
    /\ NoBatchInFlight
    /\ handleDownload(TRUE)
    /\ UNCHANGED relayVars

NextEntry ==
    \/ CallDownload
    \/ CallRetry
    \/ ClickCard
    \/ ClickSelectAll
    \/ HqSettle
    \/ PvSettle
    \/ Pause
    \/ Timeout

SpecEntry == InitEntry /\ [][NextEntry]_vars

(***************************************************************************)
(* Properties of the download batch                                        *)
(***************************************************************************)

Slots == 1..MaxBatches

\* The invocations that got past the early returns of lines 92 and 95
Invoked(b) == b.pc \in {"group", "pause", "done"}

Indices(b) == 1..Len(b.images)

IdsOf(b, ks) == {b.images[k].id : k \in ks}

\* The images of the batch whose high-quality and preview retrievals both failed
BothFailed(b) == {k \in Indices(b) : b.tasks[k].hq = "failed" /\ b.tasks[k].pv = "failed"}

SettledFailed(b) == {k \in Indices(b) : b.tasks[k].settled = "failed"}

SettledOk(b) == {k \in Indices(b) : b.tasks[k].settled = "ok"}

\* The downloadImage calls awaiting a retrieval
Retrieving(b) == {k \in Indices(b) : b.tasks[k].settled = "no" /\ (b.tasks[k].hq = "pending" \/ b.tasks[k].pv = "pending")}

Started(b) == {k \in Indices(b) : b.tasks[k].hq # "none" \/ b.tasks[k].pv # "none"}

\* C4: when a batch over N target images has completed and M of them failed
\* both retrievals, the target ids in the failure set are exactly those M ids,
\* the succeeded count is N - M, every image was attempted and settled, and
\* the invocation returned; while it runs, every unsettled task of the group
\* awaits a retrieval (no error left downloadImage and ended the loop).
C4_BatchOutcome ==
    \A s \in Slots :
        LET b == batches[s] IN
        /\ b.pc = "done" =>
            /\ Started(b) = Indices(b)
            /\ SettledFailed(b) \union SettledOk(b) = Indices(b)
            /\ SettledFailed(b) = BothFailed(b)
            /\ b.failCount = Cardinality(BothFailed(b))
            /\ b.successCount = Len(b.images) - Cardinality(BothFailed(b))
            /\ failedIds \intersect b.targetIds = IdsOf(b, BothFailed(b))
        /\ b.pc = "group" =>
            /\ Retrieving(b) # {}
            /\ \A k \in Group(b) : b.tasks[k].settled = "no" => k \in Retrieving(b)

C4_Witness ==
    \E s \in Slots :
        /\ batches[s].pc = "done"
        /\ Len(batches[s].images) = 4
        /\ BothFailed(batches[s]) = {2, 4}
        /\ batches[s].successCount = 2

\* C5: the failure set and the selection set hold only ids of the current
\* post's images (and are empty when there is no current post).
C5_SetsWithinPost == failedIds \subseteq ImageIds(post) /\ selectedIds \subseteq ImageIds(post)

\* C6: for each image the high-quality retrieval is made first, the preview
\* retrieval only after the high-quality one failed with the last relay's
\* error, the id is in the failure set exactly when both failed, and a failed
\* image does not keep the other targets from being attempted.
C6_HqThenPreview ==
    \A s \in Slots :
        LET b == batches[s] IN
        /\ \A k \in Indices(b) :
            LET t == b.tasks[k] IN
            /\ t.pv # "none" => t.hq = "failed" /\ t.hqError.relay = NumProxies - 1
            /\ t.hq = "none" => t.settled = "no"
            /\ t.settled = "failed" <=> (t.hq = "failed" /\ t.pv = "failed")
            /\ t.settled = "ok" <=> (t.hq = "ok" \/ t.pv = "ok")
            /\ Invoked(b) => (b.images[k].id \in failedIds <=> t.settled = "failed")
        /\ b.pc = "done" => Started(b) = Indices(b)
        /\ b.pc = "group" => Group(b) \subseteq Started(b)

C6_Witness ==
    \E s \in Slots :
        LET b == batches[s] IN
        /\ b.pc = "done"
        /\ Len(b.images) = 3
        /\ b.tasks[1].settled = "failed"
        /\ b.tasks[2].hq = "failed" /\ b.tasks[2].pv = "ok"
        /\ b.tasks[3].hq = "ok"
        /\ failedIds = {b.images[1].id}

\* The group of 3 an image of the batch belongs to, from 0
GroupOf(k) == (k - 1) \div MAX_CONCURRENT

\* C7: within one invocation at most 3 retrievals are in flight, and no image
\* of a later group of 3 has started while an image of an earlier group is
\* unsettled.
C7_PoolWidth ==
    \A s \in Slots :
        LET b == batches[s] IN
        /\ Cardinality(Retrieving(b)) <= 3
        /\ \A k \in Started(b) : \A j \in Indices(b) :
            GroupOf(j) < GroupOf(k) => b.tasks[j].settled # "no"

C7_Witness ==
    \E s \in Slots :
        /\ Len(batches[s].images) = 4
        /\ Retrieving(batches[s]) = {4}
        /\ batches[s].tasks[1].settled = "failed"

\* The step in which a handleDownload(true) invocation takes slot s
RetryStarts(s) == ~InFlight(batches[s]) /\ InFlight(batches'[s]) /\ batches'[s].retry

\* C8: a retry processes exactly the images whose ids are in the failure set
\* when it is called and empties the failure set before any of its
\* retrievals settles; from then on, and when it has completed, the failure
\* set holds exactly the ids whose retry failed.
C8_RetryInv ==
    \A s \in Slots :
        LET b == batches[s] IN
        (b.retry /\ Invoked(b)) =>
            /\ IdsOf(b, Indices(b)) = b.targetIds
            /\ Len(b.images) = Cardinality(b.targetIds)
            /\ failedIds = IdsOf(b, SettledFailed(b))

C8_RetryStep ==
    \A s \in Slots :
        RetryStarts(s) =>
            /\ batches'[s].targetIds = failedIds
            /\ failedIds # {}
            /\ failedIds' = {}
            /\ SettledFailed(batches'[s]) \union SettledOk(batches'[s]) = {}

C8_RetryExactlyFailed == []C8_RetryInv /\ [][C8_RetryStep]_vars

C8_Witness ==
    \E s \in Slots :
        LET b == batches[s] IN
        /\ b.retry /\ b.pc = "done"
        /\ Len(b.images) = 2 /\ Len(post.images) = 4
        /\ b.tasks[1].settled = "ok" /\ b.tasks[2].settled = "failed"
        /\ failedIds = {b.images[2].id}

\* The step in which handleDownload(true) is called with an empty failure set
RetryOnEmpty(s) == failedIds = {} /\ batches'[s] # batches[s] /\ ~InFlight(batches[s]) /\ batches'[s].retry

\* C9: the retry entry point called with an empty failure set returns at once:
\* the invocation issues no retrieval and counts nothing succeeded or failed,
\* and the failure set, post, selection set and processing status stay as
\* they were.
C9_EarlyInv ==
    \A s \in Slots :
        batches[s].pc = "early" =>
            batches[s].tasks = <<>> /\ batches[s].successCount = 0 /\ batches[s].failCount = 0

C9_EarlyStep ==
    \A s \in Slots :
        RetryOnEmpty(s) =>
            /\ batches'[s].pc = "early"
            /\ failedIds' = {}
            /\ UNCHANGED <<post, selectedIds, processing, timers, searches, loggedFailed, rcall>>

C9_RetryEmptyNoOp == []C9_EarlyInv /\ [][C9_EarlyStep]_vars

C9_Witness ==
    \E s \in Slots :
        /\ batches[s].pc = "early" /\ batches[s].retry
        /\ failedIds = {} /\ post # NoPost /\ selectedIds # {}
        /\ processing.status = "success"

\* C10: with no batch in flight, an image id is in the failure set exactly
\* when the most recent download attempt for the image failed; a step changes
\* the membership only of ids that the invocation it belongs to targets.
C10_Inv == NoBatchInFlight => failedIds = loggedFailed

C10_Frame ==
    \A id \in ImageIds(post) :
        ((id \in failedIds) # (id \in failedIds')) =>
            \E s \in Slots : batches'[s] # batches[s] /\ id \in batches'[s].targetIds

C10_FailureSetIsLastOutcome == []C10_Inv /\ [][C10_Frame]_vars

C10_Witness ==
    \E s \in Slots :
        LET b == batches[s] IN
        /\ b.retry /\ b.pc = "done"
        /\ Len(post.images) = 3 /\ Len(b.images) = 2
        /\ b.tasks[1].settled = "ok" /\ b.tasks[2].settled = "failed"
        /\ failedIds = {b.images[2].id}

\* The downloadImage calls of the batch that have settled
Settled(b) == SettledOk(b) \union SettledFailed(b)

\* The step in which a downloadImage call of slot s settles
Settles(s) == Cardinality(Settled(batches'[s])) = Cardinality(Settled(batches[s])) + 1

\* C11: while a batch runs and its status is shown, the reported progress is
\* the number of images settled so far, after every single image, against a
\* total that is the number of targets; the progress a settling image reports
\* is one more than the last, never above the total, and the total itself
\* when the batch completes.
C11_Inv ==
    \A s \in Slots :
        LET b == batches[s] IN
        /\ Invoked(b) => Progress(b) = Cardinality(Settled(b)) /\ Progress(b) <= Cardinality(b.targetIds)
        /\ b.pc = "done" => Progress(b) = Cardinality(b.targetIds)
        /\ (InFlight(b) /\ processing.status = "downloading") =>
            /\ processing.progress = Cardinality(Settled(b))
            /\ processing.total = Cardinality(b.targetIds)
            /\ processing.progress < processing.total

C11_Step ==
    \A s \in Slots :
        Settles(s) =>
            /\ Progress(batches'[s]) = Progress(batches[s]) + 1
            /\ InFlight(batches'[s]) => processing'.progress = Progress(batches'[s])
            /\ (InFlight(batches'[s]) /\ processing.progress # None) => processing'.progress = processing.progress + 1

C11_ProgressIsSettledCount == []C11_Inv /\ [][C11_Step]_vars

C11_Witness ==
    \E s \in Slots :
        LET b == batches[s] IN
        /\ b.pc = "group" /\ b.i = 0 /\ Len(b.images) = 4
        /\ SettledOk(b) = {1} /\ SettledFailed(b) = {3}
        /\ processing = [status |-> "downloading", progress |-> 2, total |-> 4]

\* A link resolution starts, succeeds, fails
SearchStarts == searches' = searches + 1

SearchSucceeds == searches' = searches - 1 /\ processing'.status = "idle"

SearchFails == searches' = searches - 1 /\ processing'.status = "error"

\* C28: the start of a link resolution clears the post, the selection and
\* the failure set; its success installs the returned post, selects exactly
\* its images and leaves the failure set empty; its failure leaves the post
\* absent and both sets empty, with the status error.
C28_SearchStep ==
    /\ SearchStarts => (post' = NoPost /\ selectedIds' = {} /\ failedIds' = {})
    /\ SearchSucceeds => (post' \in ParsedPosts /\ selectedIds' = ImageIds(post') /\ failedIds' = {})
    /\ SearchFails => (post' = NoPost /\ selectedIds' = {} /\ failedIds' = {})

C28_SearchReplacesPost == [][C28_SearchStep]_vars

\* The pauses an invocation has begun: one per group of 3 left behind, and
\* the one it is in
Pauses(b) == (b.i \div 3) + (IF b.pc = "pause" THEN 1 ELSE 0)

\* C32: an invocation pauses after a group of 3 has settled exactly when a
\* further group remains: never before the first group nor after the last,
\* so that a batch of N images has paused ceil(N/3) - 1 times when it ends.
C32_Inv ==
    \A s \in Slots :
        LET b == batches[s]
            N == Len(b.images)
        IN
        /\ b.pc = "pause" => (\A k \in 1..(b.i + 3) : b.tasks[k].settled # "no") /\ b.i + 3 < N
        /\ b.pc = "group" => Pauses(b) = GroupOf(b.i + 1) /\ b.i < N
        /\ b.pc = "done" => Pauses(b) = ((N + 2) \div 3) - 1

C32_Step ==
    \A s \in Slots :
        (batches[s].pc = "group" /\ batches'[s].pc \in {"pause", "done"}) =>
            (batches'[s].pc = "pause" <=> batches[s].i + 3 < Len(batches[s].images))

C32_PauseBetweenGroups == []C32_Inv /\ [][C32_Step]_vars

C32_Witness == \E s \in Slots : batches[s].pc = "done" /\ Len(batches[s].images) = 4 /\ Pauses(batches[s]) = 1

(***************************************************************************)
(* SpecRelay: one call of fetchBlobWithRetry, one step per await           *)
(***************************************************************************)

InitRelay ==
    /\ responses = <<>>
    /\ fcall = NotCalled
    /\ pcall = NotParsing
    /\ ncall = NotNaming
    /\ fcalls = NoCalls
    /\ InitApp

\* lines 9-38: the call is made and runs to the fetch of relay 0
Call ==
    /\ fcall.pc = "idle"
    /\ fcall' = CallStart
    /\ UNCHANGED <<responses, pcall, ncall, fcalls>>
    /\ UNCHANGED appVars

\* line 38: the awaited fetch settles with one of the answers a relay can give
FetchSettles ==
    /\ fcall.pc = "fetch"
    /\ \E resp \in Responses :
        /\ fcall' = AfterFetch(fcall, resp)
        /\ responses' = Append(responses, resp)
    /\ UNCHANGED <<pcall, ncall, fcalls>>
    /\ UNCHANGED appVars

\* line 65: the awaited delay elapses
DelayElapses ==
    /\ fcall.pc = "delay"
    /\ fcall' = AfterDelay(fcall)
    /\ UNCHANGED <<responses, pcall, ncall, fcalls>>
    /\ UNCHANGED appVars

NextRelayCall == Call \/ FetchSettles \/ DelayElapses

SpecRelay == InitRelay /\ [][NextRelayCall]_vars

\* The relay requests of the call, in the order they were issued
Requests == SelectSeq(fcall.trace, LAMBDA e : e.type = "request")

\* The validation of lines 43-59 as the specification words it
Acceptable(resp) ==
    /\ resp.net /\ resp.ok /\ resp.body
    /\ ~Includes(resp.contentType, "text/html")
    /\ ~Includes(resp.contentType, "application/json")
    /\ resp.size >= MinBlobSize

FirstAcceptable(k) == Acceptable(responses[k]) /\ \A j \in 1..(k - 1) : ~Acceptable(responses[j])

\* C1: when relay k (1-based) is the first whose response passes validation,
\* exactly k requests are issued: relays 1..k are each requested once, in list
\* order, none is skipped, and the call has returned, so no later relay is tried.
C1_ExactlyKAttempts ==
    /\ \A j \in 1..Len(Requests) : Requests[j].relay = j - 1
    /\ Len(Requests) <= NumProxies
    /\ \A k \in 1..Len(responses) :
        FirstAcceptable(k) => fcall.pc = "returned" /\ Len(Requests) = k /\ Len(responses) = k

C1_Witness == fcall.pc = "returned" /\ Len(responses) = 3 /\ FirstAcceptable(3)

AllFailed == Len(responses) = NumProxies /\ \A j \in 1..NumProxies : ~Acceptable(responses[j])

\* C2: when all five relays fail, the call fails after exactly five requests,
\* the error it throws is the error of the last relay of the list, and a wait
\* lies between every two consecutive requests.
C2_AllFailLastError ==
    /\ AllFailed => fcall.pc \in {"delay", "thrown"} /\ Len(Requests) = NumProxies
    /\ fcall.pc = "thrown" =>
        /\ AllFailed
        /\ Len(Requests) = NumProxies
        /\ fcall.result = TryRelay(NumProxies - 1, responses[NumProxies]).err
        /\ fcall.result.relay = NumProxies - 1
    /\ \A p \in 1..(Len(fcall.trace) - 1) :
        fcall.trace[p].type = "request" => fcall.trace[p + 1].type = "wait"

C2_Witness == fcall.pc = "thrown" /\ AllFailed /\ responses[1] # responses[NumProxies]

\* C3: a body is returned only from a response with a success status, a
\* content type that is neither HTML nor JSON and at least 5120 bytes; a
\* response failing a check is a relay failure: its body is not returned and
\* the next relay, if any, is waited for and then requested.
C3_OnlyValidatedBody ==
    /\ fcall.pc = "returned" =>
        /\ fcall.result = responses[Len(responses)]
        /\ Acceptable(fcall.result)
        /\ fcall.result.size >= 5120
    /\ \A k \in 1..Len(responses) :
        ~Acceptable(responses[k]) =>
            /\ ~(fcall.pc = "returned" /\ k = Len(responses))
            /\ k < NumProxies =>
                \/ fcall.pc = "delay" /\ fcall.i = k - 1
                \/ Len(Requests) > k /\ Requests[k + 1].relay = k
            /\ k = NumProxies => fcall.pc \in {"delay", "thrown"}

C3_Witness == fcall.pc = "returned" /\ Len(responses) = 2 /\ responses[1] = Placeholder

(***************************************************************************)
(* SpecParse: one call of parseXhsLink, one step per await                 *)
(***************************************************************************)

\* Pasted texts: a share link alone, a share link inside share copy, and
\* copy without a link
ParseTexts == {
    Str(<<"https://", "xiaohongshu.com", "/explore/1">>),
    Str(<<"note", " ", "http://", "xhslink.com", "/a", " ", "copy">>),
    Str(<<"note", " ", "copy">>)}

\* An image record as the origin serves it, and note records
OriginImage == ImgRecord(JStr(<<"http://", "x.com/img", "!", "thumb", "?token=abc">>), Absent, JStr(<<"f1">>))

GoodNote == NoteRecord(JStr(<<"n1">>), JArray(<<OriginImage>>))

\* Parsed states: the note at the direct path, in the map only, nowhere, in a
\* map whose first entry is null, and a note whose image list has a null entry
ParseStates == {
    State(NoteSlice(GoodNote, Absent)),
    State(NoteSlice(Absent, DetailMap(<<MapEntry(GoodNote)>>))),
    State(Absent),
    State(NoteSlice(Absent, DetailMap(<<Null>>))),
    State(NoteSlice(NoteRecord(JStr(<<"n2">>), JArray(<<OriginImage, Null>>)), Absent))}

\* The pages a relay of the given type can deliver
Pages(type) ==
    (IF type = "json" THEN {UndefinedPage} ELSE {})
    \union {EmptyPage, TextPage(FALSE, NoScript), TextPage(FALSE, Script(State(NoteSlice(GoodNote, Absent)))),
            TextPage(TRUE, NoScript), TextPage(TRUE, BrokenScript)}
    \union {TextPage(TRUE, Embedded(form, valid, IF valid THEN State(NoteSlice(GoodNote, Absent)) ELSE <<>>)) :
                form \in StateForms \ {"__INITIAL_STATE__"}, valid \in BOOLEAN}
    \union {TextPage(TRUE, Script(st)) : st \in ParseStates}

HtmlAnswers(type) ==
    {HtmlAnswer(FALSE, FALSE, FALSE, EmptyPage), HtmlAnswer(TRUE, FALSE, FALSE, EmptyPage), HtmlAnswer(TRUE, TRUE, FALSE, EmptyPage)}
    \union {HtmlAnswer(TRUE, TRUE, TRUE, page) : page \in Pages(type)}

InitParse ==
    /\ responses = <<>>
    /\ fcall = NotCalled
    /\ pcall = NotParsing
    /\ ncall = NotNaming
    /\ fcalls = NoCalls
    /\ InitApp

\* lines 72-109: parseXhsLink is called with a pasted text
ParseCall ==
    /\ pcall.pc = "idle"
    /\ \E text \in ParseTexts : pcall' = ParseStart(text)
    /\ UNCHANGED <<responses, fcall, ncall, fcalls>>
    /\ UNCHANGED appVars

\* line 109: the awaited fetch of the current relay settles with one of the answers
HtmlFetch(answers) ==
    /\ pcall.pc = "fetch"
    /\ \E answer \in answers :
        /\ pcall' = AfterHtmlFetch(pcall, answer)
        /\ responses' = Append(responses, answer)
    /\ UNCHANGED <<fcall, ncall, fcalls>>
    /\ UNCHANGED appVars

HtmlFetchSettles == HtmlFetch(HtmlAnswers(HtmlProxyTypes[pcall.i]))

NextParse == ParseCall \/ HtmlFetchSettles

SpecParse == InitParse /\ [][NextParse]_vars

\* The check of lines 111-127 as the specification words it: a success
\* status and a body that passes the HTML check
HtmlAcceptable(answer) == answer.net /\ answer.ok /\ answer.readable /\ LooksLikeHtml(answer.page)

AllHtmlFailed == Len(responses) = NumHtmlProxies /\ \A j \in 1..NumHtmlProxies : ~HtmlAcceptable(responses[j])

\* The call got past line 137: the state is looked for in html
LocatorRan == pcall.pc = "settled" /\ pcall.requests # <<>> /\ PageTruthy(pcall.html)

\* The error of the last relay's attempt
LastHtmlError == TryHtml(NumHtmlProxies, responses[NumHtmlProxies], EmptyPage).err

\* C12: when every HTML relay attempt fails, the call fails with the last
\* attempt's error (as thrown, or as the outer catch rewords it), and the
\* state is never looked for in a body that failed the HTML check.
C12_HtmlExhaustion ==
    /\ (pcall.pc = "settled" /\ AllHtmlFailed) =>
        /\ pcall.result.kind = "error"
        /\ pcall.result.error \in {LastHtmlError, OuterCatch(LastHtmlError)}
    /\ LocatorRan => LooksLikeHtml(pcall.html)

\* The records the structural paths of lines 157-163 lead to, in priority
\* order: state.note.note, then the note of the first entry of
\* state.note.noteDetailMap; Absent where the path leads nowhere
PathRecords(state) ==
    <<Field(Field(state, "note"), "note"),
      Field(FirstEntry(Field(Field(state, "note"), "noteDetailMap")), "note")>>

YieldsRecord(state) == \E k \in DOMAIN PathRecords(state) : ~Falsy(PathRecords(state)[k])

\* The five error kinds, by the stage that raises them; the outer catch
\* rewords a relay's "Failed to fetch", which stays a failure of the retrieval
ErrorKinds == {"link", "html", "locate", "json", "note"}

KindOf(error) == IF error.stage = "remapped" THEN "html" ELSE error.stage

\* The first stage that fails for the text and the answers of a settled call,
\* in the order link check, retrieval, state location, state parse, note
\* location; "none" when no stage fails
FirstFailure ==
    IF ~PassesLinkCheck(TargetUrl(pcall.text)) THEN "link"
    ELSE IF AllHtmlFailed THEN "html"
    ELSE
        LET page == responses[Len(responses)].page IN
        IF ~page.script.found THEN "locate"
        ELSE IF ~page.script.valid THEN "json"
        ELSE IF ~YieldsRecord(page.script.state) THEN "note"
        ELSE "none"

\* C18: a settled call has returned a post, no stage having failed, or has
\* failed with one of the five error kinds, that of the first stage that
\* failed; no other error escapes.
C18_OneOfFiveKinds ==
    pcall.pc = "settled" =>
        \/ pcall.result.kind = "post" /\ FirstFailure = "none"
        \/ /\ pcall.result.kind = "error"
           /\ KindOf(pcall.result.error) \in ErrorKinds
           /\ FirstFailure # "none" => KindOf(pcall.result.error) = FirstFailure

\* The call took the page of its last answer and looked for the state in it
TookPage == pcall.pc = "settled" /\ responses # <<>> /\ HtmlAcceptable(responses[Len(responses)])

TakenScript == responses[Len(responses)].page.script

FailedAt(stage) == pcall.result.kind = "error" /\ pcall.result.error.stage = stage

\* C21: the state is found whenever the page carries it in one of the known
\* forms: the call fails with the state-not-found error only if the page
\* carries it in none of them, and with the state-parse error only if the
\* carried text is not valid JSON.
C21_StateFoundInAnyForm ==
    TookPage =>
        /\ FailedAt("locate") => TakenScript.form \notin StateForms
        /\ FailedAt("json") => ~TakenScript.valid
        /\ (TakenScript.form \in StateForms /\ TakenScript.valid) => pcall.state = TakenScript.state

\* Every relay failed and the last attempt failed in transport: fetch rejected
TransportFailure == pcall.pc = "settled" /\ AllHtmlFailed /\ ~responses[NumHtmlProxies].net

\* lines 209-211: the error that carries the network message
NetworkError == OuterCatch(PErr("html", NumHtmlProxies, "Failed to fetch"))

\* C26: a call that fails because of a transport failure surfaces the error
\* with the network message, and no other failure is surfaced with it.
C26_NetworkMessage ==
    /\ TransportFailure => pcall.result = Threw(NetworkError)
    /\ (pcall.pc = "settled" /\ pcall.result = Threw(NetworkError)) =>
        /\ responses # <<>>
        /\ ~responses[Len(responses)].net

\* C31: the HTML relays are requested one at a time in list order, each
\* after the answer of the one before; the first body that passes the HTML
\* check ends the loop and is the page; and the step in which an attempt
\* fails does not request the next relay: a wait comes first.
C31_Inv ==
    /\ pcall.requests = [j \in 1..Len(pcall.requests) |-> HtmlRequest(j, pcall.targetUrl)]
    /\ Len(pcall.requests) <= Len(responses) + 1
    /\ \A j \in 1..(Len(responses) - 1) : ~HtmlAcceptable(responses[j])
    /\ TookPage => pcall.html = responses[Len(responses)].page

C31_Step == Len(responses') = Len(responses) + 1 => pcall'.requests = pcall.requests

C31_SameProtocolAsBinary == []C31_Inv /\ [][C31_Step]_vars

(***************************************************************************)
(* SpecLink: parseXhsLink over the pasted texts                            *)
(***************************************************************************)

\* Bound: the number of chunks of a pasted text
MaxTextLen == 5

\* The chunks of a pasted text: a protocol prefix, an allowed and another
\* domain name, a path, a blank, a word of share copy
TextChunks == {"https://", "xiaohongshu.com", "example.com", "/a", " ", "note"}

Texts == UNION {[1..n -> TextChunks] : n \in 0..MaxTextLen}

\* The relays are unreachable, or deliver the page of a note
LinkAnswers == {HtmlAnswer(FALSE, FALSE, FALSE, EmptyPage), HtmlAnswer(TRUE, TRUE, TRUE, TextPage(TRUE, Script(State(NoteSlice(GoodNote, Absent)))))}

LinkCall ==
    /\ pcall.pc = "idle"
    /\ \E text \in Texts : pcall' = ParseStart(text)
    /\ UNCHANGED <<responses, fcall, ncall, fcalls>>
    /\ UNCHANGED appVars

LinkFetchSettles == HtmlFetch(LinkAnswers)

NextLink == LinkCall \/ LinkFetchSettles

SpecLink == InitParse /\ [][NextLink]_vars

\* The host of a URL: what follows the protocol prefix up to the path
Host(url) ==
    LET paths == {k \in 2..Len(url) : url[k] = "/a"} IN
    IF paths = {} THEN SubSeq(url, 2, Len(url))
    ELSE SubSeq(url, 2, (CHOOSE k \in paths : \A j \in paths : k <= j) - 1)

IsUrl(str) == Len(str) > 1 /\ str[1] \in Schemes

HostAllowed(url) == \E d \in AllowedDomains : Host(url) = <<d>>

\* text[k..m] is a URL of an allowed domain standing between blanks
AllowedUrlAt(text, k, m) ==
    /\ k < m
    /\ k = 1 \/ text[k - 1] \in Breaks
    /\ m = Len(text) \/ text[m + 1] \in Breaks
    /\ \A j \in k..m : UrlChunk(text[j])
    /\ IsUrl(SubSeq(text, k, m)) /\ HostAllowed(SubSeq(text, k, m))

AllowedUrls(text) == {SubSeq(text, x[1], x[2]) : x \in {y \in (1..Len(text)) \X (1..Len(text)) : AllowedUrlAt(text, y[1], y[2])}}

Called == pcall.pc # "idle"

Rejected == pcall.pc = "settled" /\ pcall.result = Threw(PErr("link", 0, "invalid link")) /\ pcall.requests = <<>>

\* C13: when the pasted text contains a URL of an allowed domain, the
\* candidate of the link extractor is that URL, whatever surrounds it.
C13_CandidateIsAllowedUrl == (Called /\ AllowedUrls(pcall.text) # {}) => pcall.targetUrl \in AllowedUrls(pcall.text)

\* C14: when the pasted text contains no URL of an allowed domain, the call
\* fails with the invalid-link error and no relay request is ever issued.
C14_NoAllowedUrlRejected == (Called /\ AllowedUrls(pcall.text) = {}) => Rejected

\* C15: a relay request is issued only for a candidate whose host is an
\* allowed domain; a URL with another host is rejected even when an allowed
\* domain name occurs elsewhere in it.
C15_RequestOnlyAllowedHost ==
    /\ (pcall.requests # <<>> /\ IsUrl(pcall.targetUrl)) => HostAllowed(pcall.targetUrl)
    /\ (Called /\ IsUrl(pcall.targetUrl) /\ ~HostAllowed(pcall.targetUrl)) => Rejected

(***************************************************************************)
(* SpecNote: parseXhsLink from the parsed state object on (lines 156-204)  *)
(***************************************************************************)

\* Bound: the number of entries of an image list
MaxListLen == 2

\* The URL strings of an image record: an optional protocol prefix, an
\* optional address, an optional '!' directive and an optional query
UrlStrings ==
    {prefix \o address \o directive \o query :
        prefix \in {<<>>, <<"http://">>, <<"https://">>},
        address \in {<<>>, <<"x.com/img">>},
        directive \in {<<>>, <<"!", "thumb">>},
        query \in {<<>>, <<"?token=abc">>}}

UrlValues == {Absent, Null, JNum} \union {JStr(str) : str \in UrlStrings}

ImgRecords == {ImgRecord(urlDefault, url, fileId) : urlDefault \in UrlValues, url \in {Absent, JStr(<<"https://", "x.com/alt">>)}, fileId \in {Absent, JStr(<<"f1">>)}}

ImageLists == UNION {[1..n -> ImgRecords \union {Null}] : n \in 0..MaxListLen}

\* Parsed states whose note, at the direct path, has the given image list
ImageStates == {State(NoteSlice(NoteRecord(JStr(<<"n1">>), JArray(list)), Absent)) : list \in ImageLists}
        \union {State(NoteSlice(NoteRecord(JStr(<<"n1">>), v), Absent)) : v \in {Absent, Null}}

\* Parsed states by the place of the note record: at the direct path, in
\* the entries of the map, in both, in neither, or state.note being the
\* record itself
DirectNote == NoteRecord(JStr(<<"n1">>), JArray(<<OriginImage>>))

MapNote == NoteRecord(JStr(<<"n2">>), JArray(<<>>))

LaterNote == NoteRecord(JStr(<<"n3">>), Absent)

DetailMaps == {Absent, Null, DetailMap(<<>>), DetailMap(<<Null>>), DetailMap(<<MapEntry(Absent)>>), DetailMap(<<MapEntry(Null)>>),
               DetailMap(<<MapEntry(MapNote)>>), DetailMap(<<MapEntry(MapNote), MapEntry(LaterNote)>>), DetailMap(<<MapEntry(Absent), MapEntry(LaterNote)>>)}

ShapeStates == {State(NoteSlice(note, map)) : note \in {Absent, Null, DirectNote}, map \in DetailMaps}
        \union {State(Absent), State(Null), State(DirectNote)}

NoteStates == ImageStates \union ShapeStates

NoteCall ==
    /\ pcall.pc = "idle"
    /\ \E st \in NoteStates : pcall' = AfterParse(NotParsing, st)
    /\ UNCHANGED <<responses, fcall, ncall, fcalls>>
    /\ UNCHANGED appVars

NextNote == NoteCall

SpecNote == InitParse /\ [][NextNote]_vars

\* The note record of a state whose note is at the direct path, its image
\* list, and the source URL of an entry: the default URL, else the url field
DirectImages == pcall.state.note.note.imageList.items

SourceUrl(img) == Or(img.urlDefault, img.url)

ReturnedPost == pcall.pc = "settled" /\ pcall.result.kind = "post"

\* The high-quality URL as the specification words it: the upgraded source
\* without the segment from the first '!' up to the query
IsQuery(chunk) == chunk = "?token=abc"

StripDirective(url) ==
    LET bangs == {k \in DOMAIN url : url[k] = "!"}
        first == CHOOSE k \in bangs : \A j \in bangs : k <= j
        queries == {k \in DOMAIN url : k > first /\ IsQuery(url[k])}
    IN
    IF bangs = {} THEN url
    ELSE SubSeq(url, 1, first - 1) \o (IF queries = {} THEN <<>> ELSE SubSeq(url, CHOOSE k \in queries : \A j \in queries : k <= j, Len(url)))

\* C16: the high-quality URL of an image is its source URL, upgraded to
\* https, without the '!' directive and with the query kept; the preview URL
\* is the source URL with only the protocol upgraded.
C16_UrlProjection ==
    (ReturnedPost /\ pcall.state \in ImageStates) =>
        \A k \in DOMAIN pcall.result.post.images :
            LET source == SourceUrl(DirectImages[k])
                image == pcall.result.post.images[k]
            IN source.type = "string" =>
                /\ image.url = StripDirective(UpgradeHttps(source.chunks))
                /\ image.previewUrl = UpgradeHttps(source.chunks)

\* C17: every image of a returned post has a non-empty url and a non-empty previewUrl.
C17_UrlsNonEmpty ==
    ReturnedPost =>
        \A k \in DOMAIN pcall.result.post.images :
            pcall.result.post.images[k].url # EmptyStr /\ pcall.result.post.images[k].previewUrl # EmptyStr

\* The record of the highest-priority path that yields one
HighestPriorityRecord(state) ==
    LET records == PathRecords(state)
        yielding == {k \in DOMAIN records : ~Falsy(records[k])}
    IN records[CHOOSE k \in yielding : \A j \in yielding : k <= j]

\* C19: for a state in which a path yields a record, the note located is the
\* record of the highest-priority such path (the direct field's record, else
\* the record of the map's first entry), never the container of the map;
\* this for the note location of xhsService.ts and for the one of the copy
\* of parseXhsLink in geminiService.ts.
C19_HighestPriorityPath ==
    (pcall.pc = "settled" /\ YieldsRecord(pcall.state)) =>
        /\ LocateNote(pcall.state) = [threw |-> FALSE, note |-> HighestPriorityRecord(pcall.state)]
        /\ pcall.result.kind = "post" => pcall.result.post.id = HighestPriorityRecord(pcall.state).noteId
        /\ LocateNoteRobust(pcall.state) = [threw |-> FALSE, note |-> HighestPriorityRecord(pcall.state)]

\* C20: for a state in which no path yields a record, the call fails with
\* the note-not-found error and returns no post.
C20_NoRecordNoteNotFound ==
    (pcall.pc = "settled" /\ ~YieldsRecord(pcall.state)) =>
        pcall.result = Threw(PErr("note", 0, "note not found"))

(***************************************************************************)
(* SpecNames: parseXhsLink from the parsed state on, then                  *)
(* generateSmartNames on the images of the post it returned                *)
(***************************************************************************)

\* App.tsx lines 29 and 35: the credential is empty or not
ApiKeys == {"", "key"}

\* App.tsx line 82: generateSmartNames(post.images, apiKey)
NameCall ==
    /\ ReturnedPost
    /\ ncall.pc = "idle"
    /\ \E apiKey \in ApiKeys : ncall' = NameStart(pcall.result.post.images, apiKey)
    /\ UNCHANGED <<responses, fcall, pcall, fcalls>>
    /\ UNCHANGED appVars

\* The awaited fetchBlobWithRetry settles, as one of its runs does
NamePreviewSettles ==
    /\ ncall.pc = "preview"
    /\ \E ok \in {x.ok : x \in Settlements} : ncall' = AfterPreview(ncall, ok)
    /\ UNCHANGED <<responses, fcall, pcall, fcalls>>
    /\ UNCHANGED appVars

NameHqSettles ==
    /\ ncall.pc = "hq"
    /\ \E ok \in {x.ok : x \in Settlements} : ncall' = AfterHq(ncall, ok)
    /\ UNCHANGED <<responses, fcall, pcall, fcalls>>
    /\ UNCHANGED appVars

NameDelayElapses ==
    /\ ncall.pc = "delay"
    /\ ncall' = AfterNameDelay(ncall)
    /\ UNCHANGED <<responses, fcall, pcall, fcalls>>
    /\ UNCHANGED appVars

\* The promise of getBase64FromBlob (lines 5-16) settles in onloadend or
\* onerror of a FileReader no read is started on: no step leaves pc "base64"
NextNames == NoteCall \/ NameCall \/ NamePreviewSettles \/ NameHqSettles \/ NameDelayElapses

SpecNames == InitParse /\ [][NextNames]_vars

\* The image list of the record the post was built from
SourceImages ==
    LET note == HighestPriorityRecord(pcall.state) IN
    IF Falsy(note.imageList) THEN <<>> ELSE note.imageList.items

NamesSettled == ncall.pc = "settled"

SameImage(a, b) == a.id = b.id /\ a.url = b.url /\ a.previewUrl = b.previewUrl

\* C22: the images of a returned post are, in number and order, those of the
\* record's image list (image k carries the id and the address of source
\* image k), and naming keeps the images at their places.
C22_ImageOrder ==
    /\ ReturnedPost =>
        /\ Len(pcall.result.post.images) = Len(SourceImages)
        /\ \A k \in DOMAIN SourceImages :
            /\ pcall.result.post.images[k].id = Or(SourceImages[k].fileId, SynthId(k - 1))
            /\ pcall.result.post.images[k].previewUrl = UpgradeHttps(Or(SourceUrl(SourceImages[k]), JStr(EmptyStr)).chunks)
    /\ (ncall.pc # "idle" /\ ncall.apiKey # "") =>
        /\ Len(ncall.updatedImages) = Len(pcall.result.post.images)
        /\ \A k \in DOMAIN ncall.updatedImages : SameImage(ncall.updatedImages[k], pcall.result.post.images[k])
    /\ NamesSettled => ncall.result.images = ncall.images

C22_Witness ==
    /\ NamesSettled
    /\ ncall.apiKey # ""
    /\ Len(ncall.result.images) = 2
    /\ ncall.result.images[1] # ncall.result.images[2]
    /\ SourceImages[1] # SourceImages[2]

\* C23: a call with an empty credential returns the images it was given,
\* without a name, has asked for no retrieval and no wait, and does not fail.
C23_NoKeyNoOp ==
    (NamesSettled /\ ncall.apiKey = "") =>
        /\ ncall.result = NamesReturned(ncall.images)
        /\ ncall.log = <<>>

C23_Witness == NamesSettled /\ ncall.apiKey = "" /\ Len(ncall.images) = 2 /\ ncall.result.kind = "images"

\* C24: the images are processed one at a time in list order: a retrieval
\* for image 0 opens the log; any other retrieval follows a retrieval of the
\* same image (at most two per image), or a wait of 1000 ms that follows a
\* retrieval of the image before; the retrieval awaited is the last entry
\* and is for image i.
FetchesOf(k) == {p \in DOMAIN ncall.log : ncall.log[p].op = "fetch" /\ ncall.log[p].image = k}

C24_OneAtATime ==
    /\ \A p \in DOMAIN ncall.log :
        LET e == ncall.log[p] IN
        /\ e.op = "fetch" =>
            \/ p = 1 /\ e.image = 0
            \/ p > 1 /\ ncall.log[p - 1].op = "fetch" /\ ncall.log[p - 1].image = e.image
            \/ p > 2 /\ ncall.log[p - 1] = NameWait(1000) /\ ncall.log[p - 2].op = "fetch" /\ ncall.log[p - 2].image = e.image - 1
        /\ e.op = "wait" => p > 1 /\ ncall.log[p - 1].op = "fetch" /\ e.ms = 1000
    /\ \A k \in 0..(Len(ncall.images) - 1) : Cardinality(FetchesOf(k)) <= 2
    /\ ncall.pc \in {"preview", "hq", "base64"} =>
        /\ ncall.log[Len(ncall.log)].op = "fetch"
        /\ ncall.log[Len(ncall.log)].image = ncall.i
        /\ \A k \in 0..(Len(ncall.images) - 1) : FetchesOf(k) # {} => k <= ncall.i

C24_Witness ==
    /\ ncall.pc = "preview"
    /\ ncall.i = 1
    /\ Len(ncall.log) = 4
    /\ ncall.log[3] = NameWait(1000)

\* C25: an image whose two retrievals fail stays as it is, the call does not
\* fail and goes on with the images that remain: a call that has settled
\* has returned, with the images it was given, and has asked for the bytes
\* of every one of them.
C25_FailuresAbsorbed ==
    /\ ncall.result.kind # "error"
    /\ (NamesSettled /\ ncall.apiKey # "") =>
        /\ ncall.result.kind = "images"
        /\ Len(ncall.result.images) = Len(ncall.images)
        /\ \A k \in DOMAIN ncall.images : SameImage(ncall.result.images[k], ncall.images[k])
        /\ \A k \in 0..(Len(ncall.images) - 1) : Cardinality(FetchesOf(k)) = 2

C25_Witness ==
    /\ NamesSettled
    /\ ncall.apiKey # ""
    /\ Len(ncall.images) = 2
    /\ Cardinality(FetchesOf(0)) = 2
    /\ Cardinality(FetchesOf(1)) = 2

\* C33: the first retrieval for an image is of its preview URL; the
\* high-quality URL is retrieved second, in the step in which the preview
\* retrieval settles as failed; what follows the retrievals (getBase64FromBlob,
\* then the labeling call) is awaited only after a retrieval for that image.
C33_Inv ==
    /\ \A k \in 0..(Len(ncall.images) - 1) :
        LET f == FetchesOf(k) IN
        f # {} =>
            /\ ncall.log[CHOOSE p \in f : \A q \in f : p <= q].url = ncall.images[k + 1].previewUrl
            /\ Cardinality(f) = 2 => ncall.log[CHOOSE p \in f : \A q \in f : q <= p].url = ncall.images[k + 1].url
    /\ ncall.pc = "base64" => FetchesOf(ncall.i) # {}
    /\ ncall.pc = "preview" => Cardinality(FetchesOf(ncall.i)) = 1
    /\ ncall.pc = "hq" => Cardinality(FetchesOf(ncall.i)) = 2

C33_Step == ncall'.pc = "hq" => ncall.pc = "preview"

C33_PreviewFirst == []C33_Inv /\ [][C33_Step]_vars

C33_Witness ==
    /\ ncall.pc = "hq"
    /\ ncall.i = 1
    /\ ncall.images[2].url # ncall.images[2].previewUrl

\* Every awaited relay request and every timer settles: each settling step of
\* generateSmartNames is taken once it stays enabled.
SpecNamesFair ==
    /\ SpecNames
    /\ WF_vars(NamePreviewSettles)
    /\ WF_vars(NameHqSettles)
    /\ WF_vars(NameDelayElapses)

\* C34: a call of generateSmartNames with a non-empty credential eventually
\* returns or fails, whatever its retrievals gave.
C34_NamingSettles == (ncall.pc # "idle" /\ ncall.apiKey # "") ~> NamesSettled

(***************************************************************************)
(* SpecOverlap: two calls of fetchBlobWithRetry in flight at once          *)
(***************************************************************************)

\* What a relay answers to an overlapping call: no answer, a placeholder, an image
OverlapResponses == {FailedToFetch, Placeholder, Jpeg}

OverlapCall(k) ==
    /\ fcalls[k].c.pc = "idle"
    /\ fcalls' = [fcalls EXCEPT ![k].c = StartBeside(fcalls, k)]
    /\ UNCHANGED <<responses, fcall, pcall, ncall>>
    /\ UNCHANGED appVars

OverlapFetchSettles(k) ==
    /\ fcalls[k].c.pc = "fetch"
    /\ \E resp \in OverlapResponses :
        fcalls' = [fcalls EXCEPT ![k].c = AfterFetch(fcalls[k].c, resp), ![k].answers = Append(fcalls[k].answers, resp)]
    /\ UNCHANGED <<responses, fcall, pcall, ncall>>
    /\ UNCHANGED appVars

OverlapDelayElapses(k) ==
    /\ fcalls[k].c.pc = "delay"
    /\ fcalls' = [fcalls EXCEPT ![k].c = AfterDelay(fcalls[k].c)]
    /\ UNCHANGED <<responses, fcall, pcall, ncall>>
    /\ UNCHANGED appVars

NextOverlap == \E k \in Calls : OverlapCall(k) \/ OverlapFetchSettles(k) \/ OverlapDelayElapses(k)

SpecOverlap == InitRelay /\ [][NextOverlap]_vars

\* A call made alone that has received the given answers, up to the last of them
RECURSIVE Replay(_, _)
Replay(c, answers) ==
    IF answers = <<>> THEN c
    ELSE LET c1 == AfterFetch(c, Head(answers)) IN
         IF Tail(answers) = <<>> THEN c1 ELSE Replay(AfterDelay(c1), Tail(answers))

RequestsOf(c) == SelectSeq(c.trace, LAMBDA e : e.type = "request")

Waits == SelectSeq(fcall.trace, LAMBDA e : e.type = "wait")

C30_NoWaitAfterLast ==
    /\ fcall.pc = "thrown" => Len(Waits) = NumProxies - 1
    /\ fcall.pc = "delay" => fcall.i < NumProxies - 1

(***************************************************************************)
(* SpecDownloads: one resolved post, downloaded through the rendered       *)
(* download and retry buttons; in SpecDownloadsFair every awaited          *)
(* retrieval settles and every timeout runs                                *)
(***************************************************************************)

NextDownloads ==
    \/ ClickDownload
    \/ ClickRetry
    \/ ClickCard
    \/ ClickSelectAll
    \/ HqSettle
    \/ PvSettle
    \/ Pause
    \/ Timeout

SpecDownloads == InitEntry /\ [][NextDownloads]_vars

SpecDownloadsFair ==
    /\ SpecDownloads
    /\ WF_vars(HqSettle)
    /\ WF_vars(PvSettle)
    /\ WF_vars(Pause)
    /\ WF_vars(Timeout)

\* A downloadImage call makes its second retrieval only after the first one
\* failed, and settles with the outcome of the last retrieval it made
TwoCallsAtMost(task) ==
    /\ task.pv # "none" => task.hq = "failed"
    /\ task.settled = "ok" => (task.hq = "ok" \/ task.pv = "ok")
    /\ task.settled = "failed" => (task.hq = "failed" /\ task.pv = "failed")
    /\ task.settled = "no" => (task.hq \in {"none", "pending"} \/ task.pv = "pending")

C35_Inv ==
    /\ \A c \in {fetchBlobWithRetry(resps) : resps \in [1..NumProxies -> AppResponses]} :
        c.pc \in {"returned", "thrown"} /\ Len(RequestsOf(c)) <= NumProxies
    /\ \A s \in Slots : \A k \in DOMAIN batches[s].tasks : TwoCallsAtMost(batches[s].tasks[k])

C35_Step ==
    \A s \in Slots :
        (InFlight(batches[s]) /\ batches'[s].pc = "done") =>
            /\ processing.status = "downloading"
            /\ processing'.status = (IF batches'[s].failCount > 0 THEN "error" ELSE "success")
            /\ timers' > 0

\* C35: every download batch completes: a fetchBlobWithRetry call ends after
\* at most five requests, a downloadImage call settles after at most two
\* retrievals, the batch ends with the status going from downloading to
\* success (no failure) or error (a failure), and the status returns to idle.
C35_BatchCompletes ==
    /\ []C35_Inv
    /\ [][C35_Step]_vars
    /\ \A s \in Slots : InFlight(batches[s]) ~> (batches[s].pc = "done")
    /\ (processing.status \in {"success", "error"}) ~> (processing.status = "idle")

C35_Witness ==
    \E s \in Slots :
        /\ batches[s].pc = "done"
        /\ Len(batches[s].images) = 4
        /\ batches[s].failCount > 0
        /\ batches[s].successCount > 0
        /\ processing.status = "idle"
        /\ timers = 0

(***************************************************************************)
(* Spec: the status while an operation is in flight                        *)
(***************************************************************************)

\* C36: while a handleDownload invocation is in flight the status is not
\* idle, so that the download and retry buttons (enabled only when idle)
\* cannot start a second one.
C36_OneBatchInFlight == \A s \in Slots : InFlight(batches[s]) => processing.status # "idle"

\* C37: while a parseXhsLink call of handleSearch is awaited the status is
\* analyzing, so that the form stays disabled.
C37_AnalyzingWhileResolving == searches > 0 => processing.status = "analyzing"

(***************************************************************************)
(* SpecNote: the ids of a returned post                                    *)
(***************************************************************************)

\* C39: the images of a post parseXhsLink returns carry pairwise distinct ids.
C39_DistinctIds ==
    ReturnedPost =>
        LET images == pcall.result.post.images IN
        \A j, k \in DOMAIN images : images[j].id = images[k].id => j = k

(***************************************************************************)
(* SpecRename: handleSmartRename beside handleSearch, src/App.tsx 74-89    *)
(***************************************************************************)

\* Bounds of the model
MaxPosts == 2

MaxNamed == 2

NamedImage(note, k) == [id |-> <<note, k>>, url |-> <<"hq", ToString(k)>>, previewUrl |-> <<"pv", ToString(k)>>]

NamedPost(note, n) == [id |-> note, images |-> [k \in 1..n |-> NamedImage(note, k)]]

\* The posts parseXhsLink can resolve with
NamedPosts == {NamedPost(note, n) : note \in 1..MaxPosts, n \in 0..MaxNamed}

\* lines 82-88: the await of generateSmartNames, whose call is in state c: the
\* handler stays suspended (the status being proc), or goes on with the post
\* of its render: setPost({ ...post, images: updatedImages }) and the status
\* idle, or, in the catch, the status error and the reset scheduled
AwaitNames(c, captured, proc) ==
    /\ ncall' = c
    /\ IF c.pc # "settled"
       THEN /\ rcall' = [pc |-> "naming", post |-> captured]
            /\ processing' = proc
            /\ UNCHANGED <<post, timers>>
       ELSE /\ rcall' = [pc |-> "returned", post |-> captured]
            /\ IF c.result.kind = "images"
               THEN /\ post' = [captured EXCEPT !.images = c.result.images]
                    /\ processing' = Processing("idle")
                    /\ UNCHANGED timers
               ELSE /\ processing' = Processing("error")
                    /\ timers' = AddTimer(timers)
                    /\ UNCHANGED post
    /\ UNCHANGED <<selectedIds, failedIds, searches, batches, loggedFailed>>
    /\ UNCHANGED <<responses, fcall, pcall, fcalls>>

\* lines 74-82: handleSmartRename runs to its await of generateSmartNames
handleSmartRename(apiKey) ==
    /\ ~(post = NoPost \/ apiKey = "")
    /\ AwaitNames(NameStart(post.images, apiKey), post, Processing("renaming"))

\* lines 308-310: the naming button is rendered with the post and enabled
\* when the status is idle
ClickRename ==
    /\ post # NoPost
    /\ processing.status = "idle"
    /\ rcall.pc # "naming"
    /\ \E apiKey \in ApiKeys : handleSmartRename(apiKey)

RenamePreviewSettles ==
    /\ rcall.pc = "naming"
    /\ ncall.pc = "preview"
    /\ \E ok \in {x.ok : x \in Settlements} : AwaitNames(AfterPreview(ncall, ok), rcall.post, processing)

RenameHqSettles ==
    /\ rcall.pc = "naming"
    /\ ncall.pc = "hq"
    /\ \E ok \in {x.ok : x \in Settlements} : AwaitNames(AfterHq(ncall, ok), rcall.post, processing)

RenameDelayElapses ==
    /\ rcall.pc = "naming"
    /\ ncall.pc = "delay"
    /\ AwaitNames(AfterNameDelay(ncall), rcall.post, processing)

ResolveNamed == SearchResolvesWith(NamedPosts) /\ UNCHANGED relayVars

NextRename ==
    \/ Submit
    \/ ResolveNamed
    \/ Reject
    \/ ClickRename
    \/ RenamePreviewSettles
    \/ RenameHqSettles
    \/ RenameDelayElapses
    \/ Timeout

SpecRename == Init /\ [][NextRename]_vars

C38_Step == (rcall.pc = "naming" /\ rcall'.pc = "returned") => post'.id = post.id

\* C38: when a naming run settles, the current post stays the post it was:
\* the one of the most recent resolution, or none.
C38_NamingKeepsCurrentPost == [][C38_Step]_vars

====
